---- MODULE Spec2Model ----
(***************************************************************************)
(* Model of clipboard.js (Satanpit/clipboard v1.0): the debounced event    *)
(* emitter, the driver constructor and catalog, the native / flash         *)
(* drivers and the facade (copy, config, destroy) with its fallback        *)
(* listener.                                                               *)
(*                                                                         *)
(* The program is single threaded.  Every operation is a function from     *)
(* the program state (a record, see Cur) to the next program state; an     *)
(* action applies one operation to the current state.                      *)
(***************************************************************************)
EXTENDS Integers, Sequences, FiniteSets, TLC

VARIABLES
    channels,   \* ClipboardEmitter.channels: name -> list of {context, handler}
    pending,    \* the armed timer (module variable `timeout`) and its closure
    since,      \* ms elapsed since the last call that armed the timer (capped)
    calls,      \* history: every trigger call made so far
    given,      \* history: what the latest call that armed the timer passed
    last,       \* history: what the most recent timer callback did
    drivers,    \* ClipboardDriver.drivers, in key insertion order
    using,      \* ClipboardDriver.using
    cfg,        \* globalConfig
    args,       \* module variable `args`: arguments of the latest copy() call
    native,     \* private state of the native driver: isSupport, textArea
    bound,      \* per driver, the element bindings it holds (events / clips)
    outcome,    \* history: the latest API call and the error it threw, if any
    env,        \* the browser: queryCommandSupported, execCommand, ZeroClipboard
    ops         \* history: number of facade / catalog operations made

vars == <<channels, pending, since, calls, given, last, drivers, using, cfg, args,
          native, bound, outcome, env, ops>>

----------------------------------------------------------------------------
(* Bounds of the model *)

MaxCalls == 2      \* trigger calls recorded in a run
MaxSubs == 2       \* live subscriptions, over all channels
MaxOps == 3        \* facade / catalog operations in a run

(* Program constants *)

Window == 100      \* the setTimeout delay of trigger

Undefined == "undefined"
Null == "null"
NoError == "none"

\* Channel names the emitter is driven with on its own: one the library
\* uses, and the one key that off() without arguments overwrites.
ChannelNames == {"copy", "length"}

\* Caller-supplied handler functions; "boom" is one that throws.
Handlers == {"h1", "h2", "boom"}

\* The handler function the facade subscribes to "error" in copy().
Fallback == "fallback"

Elements == {"e1", "e2"}

Min(a, b) == IF a < b THEN a ELSE b

Last(q) == q[Len(q)]

RemoveAt(q, i) == SubSeq(q, 1, i - 1) \o SubSeq(q, i + 1, Len(q))

SeqToSet(q) == {q[i] : i \in 1..Len(q)}

----------------------------------------------------------------------------
(* The program state, and the history kept with it, as one record *)

Cur ==
    [channels |-> channels, pending |-> pending, since |-> since,
     calls |-> calls, given |-> given, last |-> last, drivers |-> drivers, using |-> using,
     cfg |-> cfg, args |-> args, native |-> native, bound |-> bound,
     outcome |-> outcome, env |-> env]

Becomes(s) ==
    /\ channels' = s.channels
    /\ pending' = s.pending
    /\ since' = s.since
    /\ calls' = s.calls
    /\ given' = s.given
    /\ last' = s.last
    /\ drivers' = s.drivers
    /\ using' = s.using
    /\ cfg' = s.cfg
    /\ args' = s.args
    /\ native' = s.native
    /\ bound' = s.bound
    /\ outcome' = s.outcome
    /\ env' = s.env

\* A properties object passed to trigger.  Absent keys are Undefined.
Props(target, clipboardType, name, text, message) ==
    [target |-> target, clipboardType |-> clipboardType, name |-> name,
     text |-> text, message |-> message]

NoProps == Props(Undefined, Undefined, Undefined, Undefined, Undefined)

\* `a || b` on the values of the model: Undefined, Null and the empty string
\* are falsy.
OrElse(a, b) == IF a \in {Undefined, Null, ""} THEN b ELSE a

\* new ClipboardCustomEvent(type, properties)
ClipboardCustomEvent(s, type, props) ==
    [type |-> type,
     target |-> OrElse(props.target, Null),
     clipboardType |-> OrElse(props.clipboardType, s.using),
     text |-> IF type = "copy" THEN OrElse(props.text, Null) ELSE Undefined,
     name |-> IF type = "error" THEN OrElse(props.name, Null) ELSE Undefined,
     message |-> IF type = "error" THEN OrElse(props.message, Null)
                 ELSE Undefined]

----------------------------------------------------------------------------
(* ClipboardEmitter *)

\* this.channels[name] is truthy
HasChannel(s, name) == name \in DOMAIN s.channels

SubCount(s) ==
    LET RECURSIVE Sum(_)
        Sum(D) == IF D = {} THEN 0
                  ELSE LET n == CHOOSE x \in D : TRUE
                       IN Len(s.channels[n]) + Sum(D \ {n})
    IN Sum(DOMAIN s.channels)

\* A subscription: the handler function and its context.  wrap = 0 for a
\* function the caller passed to on; wrap > 0 names one onceCallback closure.
\* beforeOff is history: an off() call has been made since the subscription.
Sub(fn, wrap, context) ==
    [handler |-> fn, wrap |-> wrap, context |-> context, beforeOff |-> FALSE]

\* on(name, callback, context)
EmitterOn(s, name, sub) ==
    LET old == IF HasChannel(s, name) THEN s.channels[name] ELSE << >>
    IN [s EXCEPT !.channels =
            [n \in DOMAIN s.channels \cup {name} |->
                IF n = name THEN Append(old, sub) ELSE s.channels[n]]]

\* The forEach / splice loop of off(name, callback): index i runs over the
\* length the array had when the loop started, and reads the live array.
RECURSIVE OffScan(_, _, _, _, _)
OffScan(list, i, n, fn, wrap) ==
    IF i > n \/ i > Len(list) THEN list
    ELSE IF list[i].handler = fn /\ list[i].wrap = wrap
         THEN OffScan(RemoveAt(list, i), i + 1, n, fn, wrap)
         ELSE OffScan(list, i + 1, n, fn, wrap)

\* Mutant of off(): it drops every handler list.
OffAllClears(s) == [s EXCEPT !.channels = << >>]

\* off(): `this.channels.length = 0` stores 0 under the key "length", so
\* channels["length"] becomes falsy; every other key keeps its list.
EmitterOffAll(s) ==
    [s EXCEPT !.channels =
        [n \in DOMAIN s.channels \ {"length"} |->
            [i \in 1..Len(s.channels[n]) |->
                [s.channels[n][i] EXCEPT !.beforeOff = TRUE]]]]

\* off(name)
EmitterOffName(s, name) ==
    IF ~HasChannel(s, name) THEN s
    ELSE [s EXCEPT !.channels =
            [n \in DOMAIN s.channels \ {name} |-> s.channels[n]]]

\* off(name, callback)
EmitterOffHandler(s, name, fn, wrap) ==
    IF ~HasChannel(s, name) THEN s
    ELSE [s EXCEPT !.channels[name] =
            OffScan(s.channels[name], 1, Len(s.channels[name]), fn, wrap)]

\* The history record of one trigger call: its channel, the error name and
\* message it passed, whether it armed the timer, whether it came less than a window
\* after the call that last armed the timer, and how many times the timer
\* callback ran for it.
Call(s, name, props, armed) ==
    [name |-> name, kind |-> props.name, message |-> props.message,
     armed |-> armed, within |-> s.since < Window, fired |-> 0]

\* Mutant of trigger: a call made while the timer is armed replaces the
\* closure but keeps the running timer's deadline.
TriggerKeepsDeadline(s, name, props, extra) ==
    IF ~HasChannel(s, name)
    THEN [s EXCEPT !.calls = Append(@, Call(s, name, props, FALSE))]
    ELSE [s EXCEPT
            !.calls = Append(@, Call(s, name, props, TRUE)),
            !.given = [props |-> props, extra |-> extra],
            !.pending = <<[name |-> name, props |-> props, extra |-> extra,
                           call |-> Len(s.calls) + 1,
                           left |-> IF s.pending = << >> THEN Window
                                    ELSE s.pending[1].left]>>,
            !.since = 0]

\* Mutant of trigger: a call for another channel than the one the armed
\* timer is for does not replace that timer.
TriggerPerChannel(s, name, props, extra) ==
    IF ~HasChannel(s, name)
    THEN [s EXCEPT !.calls = Append(@, Call(s, name, props, FALSE))]
    ELSE IF s.pending # << >> /\ s.pending[1].name # name
    THEN [s EXCEPT !.calls = Append(@, Call(s, name, props, TRUE)),
                   !.since = 0]
    ELSE [s EXCEPT
            !.calls = Append(@, Call(s, name, props, TRUE)),
            !.given = [props |-> props, extra |-> extra],
            !.pending = <<[name |-> name, props |-> props, extra |-> extra,
                           call |-> Len(s.calls) + 1, left |-> Window]>>,
            !.since = 0]

\* trigger(name, properties, ...extra)
EmitterTrigger(s, name, props, extra) ==
    IF ~HasChannel(s, name)
    THEN [s EXCEPT !.calls = Append(@, Call(s, name, props, FALSE))]
    ELSE [s EXCEPT
            !.calls = Append(@, Call(s, name, props, TRUE)),
            !.given = [props |-> props, extra |-> extra],
            !.pending = <<[name |-> name, props |-> props, extra |-> extra,
                           call |-> Len(s.calls) + 1, left |-> Window]>>,
            !.since = 0]

----------------------------------------------------------------------------
(* Errors.  An operation that throws leaves the error in outcome.threw; the *)
(* statements after the throwing one are skipped by their callers.          *)

Threw(s) == s.outcome.threw # NoError

Throw(s, err) == [s EXCEPT !.outcome.threw = err]

\* Entering a public operation.
Enter(s, op) ==
    [s EXCEPT !.outcome = [op |-> op, threw |-> NoError, uncaught |-> {},
                           caught |-> NoError,
                           arg |-> [name |-> Undefined, methods |-> {}]]]

\* An error thrown by an event listener is reported by the host, not thrown
\* to the code that dispatched the event.
Report(s) ==
    IF Threw(s)
    THEN [s EXCEPT !.outcome.threw = NoError,
                   !.outcome.uncaught = @ \cup {s.outcome.threw}]
    ELSE s

----------------------------------------------------------------------------
(* ClipboardDriver: the catalog (static members) *)

DriverNames == {"native", "flash", "prompt"}

RequiredDriverMethods == <<"checkSupport", "copy", "destroy">>

\* A registered driver.  kind selects the implementation: the two built in
\* drivers, or a caller-defined driver shaped like the README's "prompt"
\* example, whose checkSupport returns the constant `support`.
Driver(name, kind, support) == [name |-> name, kind |-> kind, support |-> support]

Keys(s) == [i \in 1..Len(s.drivers) |-> s.drivers[i].name]

\* ClipboardDriver.has(name)
CatalogHas(s, name) == \E i \in 1..Len(s.drivers) : s.drivers[i].name = name

\* ClipboardDriver.get(name), for a name the catalog has
CatalogGet(s, name) ==
    s.drivers[CHOOSE i \in 1..Len(s.drivers) : s.drivers[i].name = name]

\* ClipboardDriver.use(name)
CatalogUse(s, name) ==
    IF CatalogHas(s, name) THEN [s EXCEPT !.using = name] ELSE s

\* ClipboardDriver.register(driver), for an instance of ClipboardDriver
CatalogRegister(s, d) ==
    IF CatalogHas(s, d.name)
    THEN Throw(s, "already exists")
    ELSE [s EXCEPT !.drivers = Append(@, d)]

----------------------------------------------------------------------------
(* The drivers' methods *)

\* A binding made by one driver.copy(elem, callback) call: the mousedown
\* listeners of the native and caller-defined drivers, the clip of flash.
Binding(d, elems, cb) ==
    [driver |-> d.name, kind |-> d.kind, elems |-> elems, cb |-> cb]

\* The driver drops every binding it holds (its own events list / clips).
Unbind(s, d) ==
    [s EXCEPT !.bound =
        SelectSeq(@, LAMBDA b : ~(b.driver = d.name /\ b.kind = d.kind))]

\* native.checkSupport: memoises queryCommandSupported('copy')
NativeCheckSupport(s) ==
    IF s.native.isSupport = Undefined
    THEN [s EXCEPT !.native.isSupport = IF s.env.qcs THEN "true" ELSE "false"]
    ELSE s

\* driver.checkSupport(): the state after the call ...
CheckSupportState(s, d) ==
    IF d.kind = "native" THEN NativeCheckSupport(s) ELSE s

\* ... and the value it returns
CheckSupportValue(s, d) ==
    CASE d.kind = "native" -> NativeCheckSupport(s).native.isSupport = "true"
      [] d.kind = "flash" -> s.env.zc = "usable"
      [] OTHER -> d.support

\* The copyElement getter of the native driver: creates and attaches the
\* textarea unless this.textArea already is one.
NativeCopyElement(s) ==
    IF s.native.textArea = Undefined
    THEN [s EXCEPT !.native.textArea = "attached"]
    ELSE s

\* native.destroy
NativeDestroy(s) ==
    LET s1 == NativeCopyElement(s)
    IN IF s1.native.textArea = "detached"
       THEN Throw(s1, "NotFoundError")
       ELSE Unbind([s1 EXCEPT !.native.textArea = "detached"],
                   Driver("native", "native", FALSE))

\* flash.destroy: this.config.ZeroClipboard.destroy()
FlashDestroy(s) ==
    IF s.env.zc = Null
    THEN Throw(s, "TypeError")
    ELSE Unbind(s, Driver("flash", "flash", FALSE))

\* driver.destroy()
DriverDestroy(s, d) ==
    CASE d.kind = "native" -> NativeDestroy(s)
      [] d.kind = "flash" -> FlashDestroy(s)
      [] OTHER -> Unbind(s, d)

\* driver.copy(elem, callback)
DriverCopy(s, d, elems, cb) ==
    IF d.kind = "flash" /\ s.cfg.ZeroClipboard = Null
    THEN Throw(s, "TypeError")
    ELSE [s EXCEPT !.bound = Append(@, Binding(d, elems, cb))]

\* ClipboardDriver.remove(name)
CatalogRemove(s, name) ==
    IF ~CatalogHas(s, name) THEN s
    ELSE LET s1 == DriverDestroy(s, CatalogGet(s, name))
         IN IF Threw(s1) THEN s1
            ELSE [s1 EXCEPT !.drivers = SelectSeq(@, LAMBDA d : d.name # name)]

----------------------------------------------------------------------------
(* Value sources and the mousedown listeners *)

\* The value of a bound element (read by a callback such as the README's
\* function (e) { return e.target.value }).
ElementValue(e) == IF e = "e1" THEN "v1" ELSE ""

StringSource(v) == [kind |-> "string", v |-> v]

FunctionSource == [kind |-> "function", v |-> "target.value"]

\* ClipboardBase.callbackToString(callback, target)
CallbackToString(cb, target) ==
    IF cb.kind = "function" THEN ElementValue(target) ELSE cb.v

\* mouseDownHandler of native.copy, for a mousedown on target
NativeMouseDown(s, target, cb) ==
    LET val == CallbackToString(cb, target)
        s1 == NativeCopyElement(s)
        s2 == IF s1.env.execThrows
              THEN [s1 EXCEPT !.native.isSupport = "false"]
              ELSE EmitterTrigger(s1, "copy",
                       Props(target, Undefined, Undefined, val, Undefined),
                       << >>)
        s3 == IF s2.native.isSupport = Undefined
              THEN LET a == NativeCheckSupport(s2)
                   IN IF a.native.isSupport = "true"
                      THEN CatalogRemove(a, "flash")
                      ELSE a
              ELSE s2
    IN IF Threw(s3) THEN s3
       ELSE IF s3.native.isSupport # "true"
            THEN EmitterTrigger(s3, "error",
                     Props(target, "native", "support", Undefined,
                           "Native clipboard not supported"), << >>)
            ELSE CatalogUse(s3, "native")

\* One listener of a binding runs.  The listener of a caller-defined driver
\* (README "prompt") shows a prompt and changes nothing.
RunListener(s, b, target) ==
    IF b.kind = "native" THEN Report(NativeMouseDown(s, target, b.cb)) ELSE s

RECURSIVE RunListeners(_, _, _, _)
RunListeners(s, list, i, target) ==
    IF i > Len(list) THEN s
    ELSE RunListeners(RunListener(s, list[i], target), list, i + 1, target)

\* A mousedown event reaches target: the listeners registered on it when the
\* dispatch starts run in registration order.  A flash clip is no listener.
DispatchMouseDown(s, target) ==
    RunListeners(s,
        SelectSeq(s.bound, LAMBDA b : b.kind # "flash" /\ target \in b.elems),
        1, target)

----------------------------------------------------------------------------
(* The "error" listener that ClipboardAPI.copy subscribes *)

NoteFallback(s, removed) ==
    [s EXCEPT !.last.fb =
        Append(@, [removed |-> removed, binds |-> << >>, onto |-> << >>,
                   replays |-> << >>])]

NoteBind(s, name) ==
    [s EXCEPT !.last.fb[Len(s.last.fb)].binds = Append(@, name),
              !.last.fb[Len(s.last.fb)].onto = Append(@, s.args[1].elems)]

NoteReplay(s, target) ==
    [s EXCEPT !.last.fb[Len(s.last.fb)].replays = Append(@, target)]

\* Object.keys(ClipboardDriver.drivers).forEach(...): `return false` ends one
\* callback, not the loop.
RECURSIVE FallbackScan(_, _, _, _)
FallbackScan(s, keys, i, e) ==
    IF i > Len(keys) THEN s
    ELSE IF ~CatalogHas(s, keys[i]) THEN Throw(s, "TypeError")
    ELSE LET d == CatalogGet(s, keys[i])
             ok == CheckSupportValue(s, d)
             s1 == CheckSupportState(s, d)
         IN IF ~ok THEN FallbackScan(s1, keys, i + 1, e)
            ELSE LET s2 == DriverCopy(s1, d, s1.args[1].elems, s1.args[1].cb)
                     s3 == CatalogUse(NoteBind(s2, d.name), d.name)
                 IN IF Threw(s2) THEN s2
                    ELSE IF e.target \notin Elements THEN Throw(s3, "TypeError")
                    ELSE FallbackScan(
                             DispatchMouseDown(NoteReplay(s3, e.target), e.target),
                             keys, i + 1, e)

FallbackListener(s, e) ==
    IF e.name # "support" THEN s
    ELSE LET s1 == CatalogRemove(s, e.clipboardType)
         IN IF Threw(s1) THEN s1
            ELSE FallbackScan(
                     NoteFallback(s1, Len(s1.drivers) < Len(s.drivers)),
                     Keys(s1), 1, e)

----------------------------------------------------------------------------
(* The timer callback of trigger *)

\* chanel.handler.apply(chanel.context, args) for one subscription
Invoke(s, name, sub, ev, extra) ==
    LET s1 == IF sub.wrap > 0
              THEN EmitterOffHandler(s, name, sub.handler, sub.wrap)
              ELSE s
        s2 == [s1 EXCEPT !.last.hs = Append(@, sub)]
    IN CASE sub.handler = Fallback -> FallbackListener(s2, ev)
         [] sub.handler = "boom" -> Throw(s2, "HandlerError")
         [] OTHER -> s2

\* this.channels[name].forEach(...)
RECURSIVE RunHandlers(_, _, _, _, _, _)
RunHandlers(s, name, i, n, ev, extra) ==
    IF i > n \/ i > Len(s.channels[name]) THEN s
    ELSE LET s1 == Invoke(s, name, s.channels[name][i], ev, extra)
         IN IF Threw(s1) THEN s1
            ELSE RunHandlers(s1, name, i + 1, n, ev, extra)

TimerCallback(s) ==
    LET p == s.pending[1]
        ev == ClipboardCustomEvent(s, p.name, p.props)
        s0 == [Enter(s, "timer") EXCEPT
                 !.pending = << >>,
                 !.calls[p.call].fired = @ + 1,
                 !.last = [call |-> p.call, ev |-> ev, props |-> p.props,
                           extra |-> p.extra, age |-> s.since,
                           subs |-> IF HasChannel(s, p.name)
                                    THEN s.channels[p.name] ELSE << >>,
                           hs |-> << >>, fb |-> << >>]]
    IN IF ~HasChannel(s0, p.name) THEN Throw(s0, "TypeError")
       ELSE RunHandlers(s0, p.name, 1, Len(s0.channels[p.name]), ev, p.extra)

----------------------------------------------------------------------------
(* ClipboardEmitter.one *)

WrapIds(s) ==
    UNION {{s.channels[n][i].wrap : i \in 1..Len(s.channels[n])} :
           n \in DOMAIN s.channels}

\* A name for the onceCallback closure this call creates.
FreshWrap(s) == CHOOSE k \in 1..(MaxSubs + MaxOps + 1) : k \notin WrapIds(s)

\* on(name, callback, context) as the caller sees it: context || null
On(s, name, fn, context) == EmitterOn(s, name, Sub(fn, 0, OrElse(context, Null)))

\* one(name, callback, context): subscribes onceCallback, which applies
\* callback to the context it closed over.
One(s, name, fn, context) == EmitterOn(s, name, Sub(fn, FreshWrap(s), context))

----------------------------------------------------------------------------
(* The ClipboardDriver constructor *)

\* The first required method the spec lacks, or Undefined.
MissingMethod(methods) ==
    LET idx == {i \in 1..Len(RequiredDriverMethods) :
                    RequiredDriverMethods[i] \notin methods}
    IN IF idx = {} THEN Undefined
       ELSE RequiredDriverMethods[CHOOSE i \in idx : \A j \in idx : i <= j]

MethodError(key) ==
    CASE key = "checkSupport" -> "Method checkSupport is not defined"
      [] key = "copy" -> "Method copy is not defined"
      [] OTHER -> "Method destroy is not defined"

\* The catch block: driver.trigger('error', {target: driver, name:
\* 'driver-error', message: err})
DriverCatch(s, name, err) ==
    EmitterTrigger(
        [s EXCEPT !.outcome.threw = NoError, !.outcome.caught = err], "error",
        Props(name, Undefined, "driver-error", Undefined, err), << >>)

\* Mutant of the constructor: it registers the driver before it validates
\* the required methods.
DriverNewRegistersFirst(s, name, methods, support) ==
    LET s0 == [Enter(s, "new") EXCEPT
                 !.outcome.arg = [name |-> name, methods |-> methods]]
        missing == MissingMethod(methods)
        s1 == CatalogRegister(s0, Driver(name, "custom", support))
    IN IF Threw(s1) THEN DriverCatch(s1, name, s1.outcome.threw)
       ELSE IF missing # Undefined
            THEN DriverCatch(s1, name, MethodError(missing))
       ELSE s1

\* new ClipboardDriver(name, driver), name a string, driver an object whose
\* own function members are `methods`
DriverNew(s, name, methods, support) ==
    LET s0 == [Enter(s, "new") EXCEPT
                 !.outcome.arg = [name |-> name, methods |-> methods]]
        missing == MissingMethod(methods)
        s1 == CatalogRegister(s0, Driver(name, "custom", support))
    IN IF missing # Undefined THEN DriverCatch(s0, name, MethodError(missing))
       ELSE IF Threw(s1) THEN DriverCatch(s1, name, s1.outcome.threw)
       ELSE s1

----------------------------------------------------------------------------
(* ClipboardAPI *)

NoArg == [kind |-> "undefined", v |-> ""]

ArrayArg(elems) == [kind |-> "array", elems |-> elems]

NoElem == [kind |-> "undefined", elems |-> {}]

\* !callback
Falsy(cb) == cb.kind = "undefined" \/ (cb.kind = "string" /\ cb.v = "")

\* ClipboardDriver.current.copy.apply(ClipboardDriver.current, args)
CopyCurrent(s) ==
    IF ~CatalogHas(s, s.using) THEN Throw(s, "TypeError")
    ELSE DriverCopy(s, CatalogGet(s, s.using), s.args[1].elems, s.args[1].cb)

\* The branch of copy taken while no driver is in use.
CopyFirst(s) ==
    LET s1 == CopyCurrent(CatalogUse(s, s.cfg.baseDriver))
        name == s1.cfg.alternativeDriver
        alt == CatalogGet(s1, name)
        s2 == CheckSupportState(s1, alt)
    IN IF Threw(s1) THEN s1
       ELSE IF name = Null \/ ~CatalogHas(s1, name) THEN s1
       ELSE IF CheckSupportValue(s1, alt)
            THEN DriverCopy(s2, alt, s2.args[1].elems, s2.args[1].cb)
            ELSE CatalogRemove(s2, alt.name)

\* Mutant of copy: it stores the arguments before it validates them.
ApiCopyStoresFirst(s, elem, cb) ==
    LET s0 == Enter(s, "copy")
        s1 == [s0 EXCEPT !.args = <<[elems |-> elem.elems, cb |-> cb]>>]
        s2 == IF s1.using = Undefined THEN CopyFirst(s1) ELSE CopyCurrent(s1)
    IN IF elem.kind = "undefined" \/ Falsy(cb)
       THEN Throw(s1, "Invalid arguments")
       ELSE IF Threw(s2) THEN s2
       ELSE On(s2, "error", Fallback, "Clipboard")

\* Clipboard.copy(elem, callback)
ApiCopy(s, elem, cb) ==
    LET s0 == Enter(s, "copy")
        s1 == [s0 EXCEPT !.args = <<[elems |-> elem.elems, cb |-> cb]>>]
        s2 == IF s1.using = Undefined THEN CopyFirst(s1) ELSE CopyCurrent(s1)
    IN IF elem.kind = "undefined" \/ Falsy(cb)
       THEN Throw(s0, "Invalid arguments")
       ELSE IF Threw(s2) THEN s2
       ELSE On(s2, "error", Fallback, "Clipboard")

\* Clipboard.config(options), for options = {key: value}
ApiConfig(s, key, value) ==
    [Enter(s, "config") EXCEPT !.cfg[key] = value]

\* Object.keys(ClipboardDriver.drivers).forEach(... driver.destroy() ...)
RECURSIVE DestroyEach(_, _, _)
DestroyEach(s, keys, i) ==
    IF i > Len(keys) THEN s
    ELSE LET s1 == DriverDestroy(s, CatalogGet(s, keys[i]))
         IN IF Threw(s1) THEN s1 ELSE DestroyEach(s1, keys, i + 1)

\* Clipboard.destroy()
ApiDestroy(s) ==
    LET s1 == EmitterTrigger(Enter(s, "destroy"), "destroy", NoProps, << >>)
        s2 == DestroyEach(s1, Keys(s1), 1)
    IN IF Threw(s2) THEN s2 ELSE EmitterOffAll(s2)

----------------------------------------------------------------------------
(* Initial state: the script has been loaded.  The two built-in drivers    *)
(* have been constructed and registered, flash's config merged into        *)
(* globalConfig; nothing is subscribed and no timer is armed.              *)

Environments ==
    [qcs : BOOLEAN, execThrows : BOOLEAN, zc : {Null, "usable", "unusable"}]

LoadedState(e) ==
    [channels |-> << >>,
     pending |-> << >>,
     since |-> Window,
     calls |-> << >>,
     given |-> [props |-> NoProps, extra |-> << >>],
     last |-> [call |-> 0, ev |-> NoProps, props |-> NoProps,
               extra |-> << >>, age |-> 0, subs |-> << >>,
               hs |-> << >>, fb |-> << >>],
     drivers |-> <<Driver("native", "native", FALSE),
                   Driver("flash", "flash", FALSE)>>,
     using |-> Undefined,
     cfg |-> [baseDriver |-> "native", alternativeDriver |-> "flash",
              ZeroClipboard |-> IF e.zc = Null THEN Null ELSE "ZeroClipboard"],
     args |-> << >>,
     native |-> [isSupport |-> Undefined, textArea |-> Undefined],
     bound |-> << >>,
     outcome |-> [op |-> "load", threw |-> NoError, uncaught |-> {},
                  caught |-> NoError,
                  arg |-> [name |-> Undefined, methods |-> {}]],
     env |-> e]

\* A run starts in state s, with no operation counted.
Starts(s) ==
    /\ channels = s.channels
    /\ pending = s.pending
    /\ since = s.since
    /\ calls = s.calls
    /\ given = s.given
    /\ last = s.last
    /\ drivers = s.drivers
    /\ using = s.using
    /\ cfg = s.cfg
    /\ args = s.args
    /\ native = s.native
    /\ bound = s.bound
    /\ outcome = s.outcome
    /\ env = s.env
    /\ ops = 0

Loaded(e) == Starts(LoadedState(e))

Init == \E e \in Environments : Loaded(e)

\* The emitter on its own, in one environment.
InitEmitter == Loaded([qcs |-> TRUE, execThrows |-> FALSE, zc |-> "usable"])

----------------------------------------------------------------------------
(* Steps of the emitter and of time *)

\* The context a caller passes along with each of its handlers.
ContextOf(fn) == IF fn = "h1" THEN "ctx" ELSE Undefined

\* What a caller passes to trigger after the name: properties, then extra
\* arguments.
Payloads ==
    {<<NoProps, << >>>>,
     <<Props("e1", Undefined, Undefined, "text", Undefined), <<"x">>>>}

DoOn(name, fn, context) ==
    /\ SubCount(Cur) < MaxSubs
    /\ Becomes(On(Enter(Cur, "emitter"), name, fn, context))

DoOne(name, fn, context) ==
    /\ SubCount(Cur) < MaxSubs
    /\ Becomes(One(Enter(Cur, "emitter"), name, fn, context))

DoOffAll == Becomes(EmitterOffAll(Enter(Cur, "emitter")))

DoOffName(name) == Becomes(EmitterOffName(Enter(Cur, "emitter"), name))

DoOffHandler(name, fn) ==
    Becomes(EmitterOffHandler(Enter(Cur, "emitter"), name, fn, 0))

DoTrigger(name, props, extra) ==
    /\ Len(calls) < MaxCalls
    /\ Becomes(EmitterTrigger(Enter(Cur, "emitter"), name, props, extra))

\* Half a window of time passes; an armed timer comes closer to firing.
Advance ==
    LET d == Window \div 2
    IN /\ since' = Min(Window, since + d)
       /\ pending' = IF pending = << >> THEN pending
                     ELSE <<[pending[1] EXCEPT !.left = IF @ > d THEN @ - d ELSE 0]>>
       /\ UNCHANGED <<channels, calls, given, last, drivers, using, cfg, args, native,
                      bound, outcome, env, ops>>

\* The armed timer fires.
Fire ==
    /\ pending # << >>
    /\ pending[1].left = 0
    /\ Becomes(TimerCallback(Cur))
    /\ UNCHANGED ops

UserOn ==
    \E name \in ChannelNames :
        DoOn(name, "h1", ContextOf("h1")) /\ UNCHANGED ops

UserOne ==
    \E name \in ChannelNames, fn \in Handlers :
        DoOne(name, fn, ContextOf(fn)) /\ UNCHANGED ops

UserOffAll == DoOffAll /\ UNCHANGED ops

UserOffName == \E name \in ChannelNames : DoOffName(name) /\ UNCHANGED ops

UserOffHandler ==
    \E name \in ChannelNames : DoOffHandler(name, "h1") /\ UNCHANGED ops

UserTrigger ==
    \E name \in ChannelNames, p \in Payloads :
        DoTrigger(name, p[1], p[2]) /\ UNCHANGED ops

NextEmitter ==
    \/ UserOn
    \/ UserOffAll
    \/ UserOffName
    \/ UserOffHandler
    \/ UserTrigger
    \/ Advance
    \/ Fire

SpecEmitter == InitEmitter /\ [][NextEmitter]_vars

----------------------------------------------------------------------------
(* Steps of callers that subscribe several handlers, with on and with one, *)
(* to one channel                                                          *)

SubscribeOn ==
    \E fn \in Handlers : DoOn("copy", fn, ContextOf(fn)) /\ UNCHANGED ops

SubscribeOne ==
    \E fn \in Handlers : DoOne("copy", fn, ContextOf(fn)) /\ UNCHANGED ops

Unsubscribe == DoOffHandler("copy", "h1") /\ UNCHANGED ops

TriggerCopy ==
    DoTrigger("copy", Props("e1", Undefined, Undefined, "text", Undefined),
              <<"x">>) /\ UNCHANGED ops

NextHandlers ==
    \/ SubscribeOn
    \/ SubscribeOne
    \/ Unsubscribe
    \/ TriggerCopy
    \/ Advance
    \/ Fire

SpecHandlers == InitEmitter /\ [][NextHandlers]_vars

----------------------------------------------------------------------------
(* Steps of a page that uses the library *)

\* Arguments a caller passes to Clipboard.copy.
CopyInputs ==
    {<<ArrayArg({"e1", "e2"}), FunctionSource>>,
     <<ArrayArg({"e2"}), StringSource("hello")>>,
     <<NoElem, FunctionSource>>,
     <<ArrayArg({"e1"}), NoArg>>}

\* Arguments a caller passes to new Clipboard.Driver: a name and the methods
\* of the spec object.
AllMethods == {"checkSupport", "copy", "destroy"}

NewInputs ==
    {<<"prompt", AllMethods \ {m}>> : m \in AllMethods}
        \cup {<<"prompt", AllMethods>>, <<"native", AllMethods>>}

\* Options a caller passes to Clipboard.config.
ConfigInputs ==
    {<<"alternativeDriver", Null>>, <<"alternativeDriver", "prompt">>,
     <<"baseDriver", "prompt">>}

\* One more operation of the page.
Op(s) ==
    /\ ops < MaxOps
    /\ ops' = ops + 1
    /\ Becomes(s)

Copy == \E c \in CopyInputs : Op(ApiCopy(Cur, c[1], c[2]))

Config == \E c \in ConfigInputs : Op(ApiConfig(Cur, c[1], c[2]))

Destroy == Op(ApiDestroy(Cur))

New == \E n \in NewInputs : Op(DriverNew(Cur, n[1], n[2], TRUE))

\* Clipboard.Driver.register(d) for a driver instance the caller holds
Register ==
    Op(CatalogRegister(Enter(Cur, "register"), Driver("prompt", "custom", TRUE)))

Use == \E name \in DriverNames : Op(CatalogUse(Enter(Cur, "use"), name))

Remove == \E name \in DriverNames : Op(CatalogRemove(Enter(Cur, "remove"), name))

\* The user presses the mouse button on an element that has a listener.
MouseDown ==
    \E target \in Elements :
        /\ \E i \in 1..Len(bound) :
               bound[i].kind # "flash" /\ target \in bound[i].elems
        /\ Op(DispatchMouseDown(Enter(Cur, "mousedown"), target))

\* ZeroClipboard emits 'copy' on a clip: the listener flash.copy gave it
FlashCopy ==
    \E i \in 1..Len(bound) : \E target \in bound[i].elems :
        /\ bound[i].kind = "flash"
        /\ Op(EmitterTrigger(Enter(Cur, "flash copy"), "copy",
                  Props(target, "flash", Undefined,
                        CallbackToString(bound[i].cb, target), Undefined),
                  << >>))

\* ZeroClipboard emits 'error' on a clip: the listener flash.copy gave it
FlashError ==
    /\ \E i \in 1..Len(bound) : bound[i].kind = "flash"
    /\ Op(EmitterTrigger(Enter(Cur, "flash error"), "error",
              Props(Undefined, "flash", "flash-disabled", Undefined,
                    "flash-disabled"), << >>))

\* The page subscribes a handler of its own.
Subscribe ==
    \E name \in {"copy", "error", "destroy"} :
        Op(On(Enter(Cur, "emitter"), name, "h1", ContextOf("h1")))

Next ==
    \/ Copy
    \/ Config
    \/ Destroy
    \/ New
    \/ Register
    \/ Use
    \/ Remove
    \/ MouseDown
    \/ FlashCopy
    \/ FlashError
    \/ Subscribe
    \/ Advance
    \/ Fire

Spec == Init /\ [][Next]_vars

\* A page whose own script, run right after the library has loaded, has
\* defined the README's "prompt" driver and configured it as the alternative
\* driver.
InitConfigured ==
    \E e \in Environments :
        Starts(ApiConfig(DriverNew(LoadedState(e), "prompt", AllMethods, TRUE),
                         "alternativeDriver", "prompt"))

SpecConfigured == InitConfigured /\ [][Next]_vars

----------------------------------------------------------------------------
(* Properties of the debounced trigger *)

\* The latest trigger call that armed the timer (0: none did).
LatestArmed ==
    LET A == {i \in 1..Len(calls) : calls[i].armed}
    IN IF A = {} THEN 0 ELSE CHOOSE i \in A : \A j \in A : j <= i

\* The first call after call i that armed the timer (0: none did).
NextArmed(i) ==
    LET A == {j \in (i + 1)..Len(calls) : calls[j].armed}
    IN IF A = {} THEN 0 ELSE CHOOSE j \in A : \A k \in A : j <= k

\* Call i continues a burst on one channel: it and the call before it armed
\* the timer for the same channel, less than a window apart.
InBurst(i) ==
    /\ i \in 2..Len(calls)
    /\ calls[i].armed
    /\ calls[i - 1].armed
    /\ calls[i].name = calls[i - 1].name
    /\ calls[i].within

\* The timer callback has just run, and delivered what the latest arming
\* call passed.
DeliveredGiven ==
    /\ last.age >= Window
    /\ last.extra = given.extra
    /\ last.ev.target = OrElse(given.props.target, Null)
    /\ last.ev.text = IF last.ev.type = "copy"
                      THEN OrElse(given.props.text, Null) ELSE Undefined

\* C1: in a burst of trigger calls on one subscribed channel, each less than
\* 100 ms after the one before, no call but the last is ever delivered; the
\* last one is not delivered while its 100 ms run, and is delivered exactly
\* once when they are over, to every handler of the channel, with the
\* properties and extra arguments of that last call.
C1_BurstDeliversLastOnce ==
    /\ \A i \in 1..Len(calls) : InBurst(i) => calls[i - 1].fired = 0
    /\ \A i \in 1..Len(calls) :
          InBurst(i) /\ i = LatestArmed =>
              IF pending # << >>
              THEN /\ calls[i].fired = 0
                   /\ pending[1].call = i
                   /\ pending[1].left + since >= Window
              ELSE /\ calls[i].fired = 1
                   /\ last.call = i
                   /\ DeliveredGiven
    /\ outcome.op = "timer" /\ InBurst(last.call)
          /\ HasChannel(Cur, calls[last.call].name)
          => last.hs = channels[calls[last.call].name]

\* C1 witness: a burst of two calls on a subscribed channel has been
\* delivered: the second call once, with its extra argument, the first never.
C1_Witness ==
    /\ InBurst(2)
    /\ calls[1].fired = 0
    /\ calls[2].fired = 1
    /\ last.call = 2
    /\ last.extra = <<"x">>
    /\ Len(last.hs) >= 1

\* C2 as stated: a trigger call on any channel name, made less than 100 ms
\* after a call that armed the timer, keeps that earlier call from ever
\* being delivered.
C2_AnyTriggerSupersedes ==
    \A i \in 1..(Len(calls) - 1) :
        calls[i].armed /\ calls[i + 1].within => calls[i].fired = 0

\* C2 amended: a trigger call on a channel that has a handler list, made
\* less than 100 ms after the call that last armed the timer, keeps that
\* earlier call from ever being delivered; a call on a name without a list
\* leaves the armed timer as it is; and the timer callback invokes the
\* handlers of the channel of the call it runs for, and no others.
C2_ArmedTriggerSupersedes ==
    /\ \A i \in 1..Len(calls) :
          calls[i].armed /\ NextArmed(i) # 0 /\ calls[NextArmed(i)].within
              => calls[i].fired = 0
    /\ pending # << >> =>
          /\ pending[1].call = LatestArmed
          /\ pending[1].name = calls[LatestArmed].name
          /\ calls[LatestArmed].fired = 0
    /\ outcome.op = "timer" =>
          /\ last.ev.type = calls[last.call].name
          /\ HasChannel(Cur, last.ev.type) => last.hs = channels[last.ev.type]

\* C2 witness: two calls on different channels, both with a handler list,
\* less than a window apart; only the second one has been delivered.
C2_Witness ==
    /\ Len(calls) >= 2
    /\ calls[1].armed /\ calls[2].armed
    /\ calls[1].name # calls[2].name
    /\ calls[2].within
    /\ calls[1].fired = 0 /\ calls[2].fired = 1
    /\ Len(last.hs) >= 1

\* C3: no handler that was subscribed before an off() call without arguments
\* is invoked by a timer callback that runs after that call.
C3_OffSilencesAll ==
    \A k \in 1..Len(last.hs) : ~last.hs[k].beforeOff

----------------------------------------------------------------------------
(* Properties of the catalog, the constructor and the facade *)

\* C4: `using` is unset or names a driver the catalog has.
C4_UsingIsRegistered == using = Undefined \/ CatalogHas(Cur, using)

\* The first driver of the catalog, in key order, whose checkSupport() is
\* true (Undefined: none is).
FirstSupporting ==
    LET S == {i \in 1..Len(drivers) : CheckSupportValue(Cur, drivers[i])}
    IN IF S = {} THEN Undefined
       ELSE drivers[CHOOSE i \in S : \A j \in S : i <= j].name

\* C5: when the timer callback has dispatched a 'support' error to the
\* facade's listener, each pass of the listener has bound at most one driver,
\* the first one of the catalog that supports the environment, and that
\* driver is the one in use.
C5_FirstSupportingOnly ==
    outcome.op = "timer" /\ outcome.threw = NoError =>
        \A k \in 1..Len(last.fb) :
            /\ Len(last.fb[k].binds) <= 1
            /\ Len(last.fb[k].binds) = 1 =>
                  /\ last.fb[k].binds[1] = FirstSupporting
                  /\ using = FirstSupporting

\* C6: one dispatched 'support' error makes one pass of the fallback (one
\* removal, one scan of the catalog), however many copy() calls came before.
C6_OneFallbackPerError ==
    outcome.op = "timer" /\ last.ev.name = "support" => Len(last.fb) <= 1

MethodErrors == {MethodError(m) : m \in AllMethods}

\* C7 as stated: the 'error' notification of a driver whose spec lacks a
\* required method is delivered once: when the timer no longer holds a
\* call the constructor made on the subscribed 'error' channel, that call
\* has been delivered.
C7_MissingMethodNotified ==
    \A i \in 1..Len(calls) :
        /\ calls[i].message \in MethodErrors
        /\ calls[i].armed
        /\ pending = << >> \/ pending[1].call # i
        => calls[i].fired = 1

\* The step is new Driver(name, spec) for a spec that lacks a method.
NewLacksMethod ==
    /\ ops' = ops + 1
    /\ outcome'.op = "new"
    /\ outcome'.arg.methods # AllMethods

\* C7 amended: constructing a driver whose spec lacks a required method
\* leaves the catalog and `using` as they were, throws nothing, and makes
\* one trigger('error') call of kind 'driver-error' naming the first missing
\* method.  The call arms the timer only if 'error' has a handler list, and
\* it is delivered at most once: not at all if 'error' has no list, or if
\* another call arms the timer before the timer fires.
C7_MissingMethodTriggersOnce ==
    [][/\ NewLacksMethod =>
            /\ drivers' = drivers
            /\ using' = using
            /\ outcome'.threw = NoError
            /\ outcome'.caught = MethodError(MissingMethod(outcome'.arg.methods))
            /\ Len(calls') = Len(calls) + 1
            /\ Last(calls').name = "error"
            /\ Last(calls').kind = "driver-error"
            /\ Last(calls').message = outcome'.caught
            /\ Last(calls').armed = HasChannel(Cur, "error")
            /\ IF HasChannel(Cur, "error")
               THEN /\ pending'[1].call = Len(calls')
                    /\ pending'[1].left = Window
                    /\ pending'[1].props.target = outcome'.arg.name
               ELSE pending' = pending
       /\ \A i \in 1..Len(calls') :
            calls'[i].message \in MethodErrors =>
                /\ calls'[i].fired <= 1
                /\ ~calls'[i].armed => calls'[i].fired = 0
                /\ calls'[i].fired = 0 /\ calls'[i].armed =>
                      \/ pending' # << >> /\ pending'[1].call = i
                      \/ NextArmed(i)' # 0
                /\ calls'[i].fired = 1 => last'.call = i \/ NextArmed(i)' # 0
      ]_vars

\* C7 witness: the call made for a spec that lacks a method has been
\* delivered once to a handler, and the name is not in the catalog.
C7_Witness ==
    \E i \in 1..Len(calls) :
        /\ calls[i].message \in MethodErrors
        /\ calls[i].fired = 1
        /\ last.call = i
        /\ Len(last.hs) >= 1
        /\ last.ev.name = "driver-error"
        /\ ~CatalogHas(Cur, "prompt")

\* C8: constructing a driver under a registered name throws to the caller.
C8_DuplicateNameThrows ==
    outcome.op = "new" /\ outcome.caught = "already exists"
        => outcome.threw # NoError

\* C9: a destroy() call throws nothing and leaves the catalog empty, the
\* first time and the second.
C9_DestroyIdempotent ==
    outcome.op = "destroy" => outcome.threw = NoError /\ drivers = << >>

\* C10: destroy() as the first operation after the script has loaded throws
\* nothing, in every environment.
C10_DestroyFirstIsSafe ==
    outcome.op = "destroy" /\ ops = 1 => outcome.threw = NoError

----------------------------------------------------------------------------
(* Properties of destroy's notification, of interactions and of copy *)

C12_CopiedNotifiesCopy ==
    ~env.execThrows =>
        \A i \in 2..Len(calls) :
            ~ /\ calls[i - 1].name = "copy"
              /\ calls[i - 1].armed
              /\ calls[i].name = "error"
              /\ calls[i].kind = "support"
              /\ calls[i].armed
              /\ calls[i].fired = 1

\* C13: a delivered 'copy' event of an interaction has the interacted
\* element as its target and, as its text, the string the value source
\* resolved to (the string the listener passed to trigger).
C13_TextIsResolvedValue ==
    outcome.op = "timer" /\ last.ev.type = "copy" /\ last.props.target \in Elements
        => /\ last.ev.target = last.props.target
           /\ last.ev.text = last.props.text

\* C14: copy() with the elements or the value source absent throws
\* 'Invalid arguments', and the call changes nothing: catalog, `using`,
\* bindings, subscriptions, stored arguments, configuration, timer and the
\* native driver's state are what they were.
C14_InvalidArgumentsChangeNothing ==
    /\ [](\A c \in CopyInputs :
            c[1].kind = "undefined" \/ c[2].kind = "undefined" =>
                ApiCopy(Cur, c[1], c[2]).outcome.threw = "Invalid arguments")
    /\ [][ops' = ops + 1 /\ outcome'.op = "copy"
            /\ outcome'.threw = "Invalid arguments"
          => UNCHANGED <<drivers, using, bound, channels, args, cfg, pending,
                         since, native, calls, given, last, env>>]_vars

\* C14 witness: after a copy() call that bound a driver, a copy() call with
\* an argument absent has thrown.
C14_Witness ==
    /\ outcome.op = "copy"
    /\ outcome.threw = "Invalid arguments"
    /\ using # Undefined
    /\ Len(bound) >= 1
    /\ args # << >>

\* C16: where the alternative driver 'flash' does not support the
\* environment, the first copy() call with valid arguments completes
\* normally: it throws nothing, 'flash' is gone from the catalog, the base
\* driver 'native' is in use and bound, and the 'error' listener is
\* subscribed.
C16_UnsupportedAlternativeRemoved ==
    /\ ops = 1
    /\ outcome.op = "copy"
    /\ outcome.threw # "Invalid arguments"
    /\ env.zc # "usable"
    => /\ outcome.threw = NoError
       /\ ~CatalogHas(Cur, "flash")
       /\ using = "native"
       /\ \E i \in 1..Len(bound) : bound[i].driver = "native"
       /\ HasChannel(Cur, "error")

\* C20: each driver the fallback binds after a failed interaction on a
\* target is bound to an element set that holds that target.
C20_ReplacementBoundToTarget ==
    outcome.op = "timer" /\ last.ev.name = "support" =>
        \A k \in 1..Len(last.fb) :
            \A j \in 1..Len(last.fb[k].onto) :
                last.ev.target \in last.fb[k].onto[j]

----------------------------------------------------------------------------
(* Properties of dispatch to several handlers *)

\* C15: a handler subscribed with one and present when a dispatch of its
\* channel starts is invoked in that dispatch (it has not been invoked
\* before, or it would have been unsubscribed), with the context it was
\* subscribed with, and is no longer subscribed afterwards.
C15_OnceOnFirstDispatch ==
    outcome.op = "timer" /\ outcome.threw = NoError =>
        \A k \in 1..Len(last.subs) :
            last.subs[k].wrap > 0 =>
                /\ \E j \in 1..Len(last.hs) : last.hs[j] = last.subs[k]
                /\ \A j \in 1..Len(channels["copy"]) :
                       channels["copy"][j] # last.subs[k]

\* C17: a dispatch in which no handler throws invokes every handler that was
\* subscribed to the channel when it started, once each, in registration
\* order.
C17_EveryHandlerOnceInOrder ==
    outcome.op = "timer" /\ outcome.threw = NoError => last.hs = last.subs

\* C19: a dispatch to handlers subscribed with on invokes every one of them,
\* whether or not one of them throws.
C19_ThrowDoesNotStopOthers ==
    outcome.op = "timer" /\ (\A k \in 1..Len(last.subs) : last.subs[k].wrap = 0)
        => last.hs = last.subs

\* C18: a step that is off(name, h) leaves no subscription of h on channel
\* name, keeps the other subscriptions of name in their order, and leaves
\* every other channel as it was.
C18_OffHandlerRemovesAll ==
    [][\A name \in ChannelNames :
          /\ HasChannel(Cur, name)
          /\ channels' = EmitterOffHandler(Cur, name, "h1", 0).channels
          /\ channels' # channels
          => /\ channels'[name] =
                   SelectSeq(channels[name], LAMBDA c : c.handler # "h1")
             /\ \A n \in DOMAIN channels \ {name} : channels'[n] = channels[n]
      ]_vars

----------------------------------------------------------------------------
(* Properties of the alternative driver and of the fallback protocol *)

\* C21: when the first interaction has shown the native base driver to be
\* supported (its listener ran to its end), the driver that
\* alternativeDriver names is gone from the catalog and every other driver
\* is still there.
C21_ConfiguredAlternativeRemoved ==
    /\ ops = 2
    /\ outcome.op = "mousedown"
    /\ outcome.uncaught = {}
    /\ native.isSupport = "true"
    /\ cfg.baseDriver = "native"
    /\ cfg.alternativeDriver # Null
    => /\ ~CatalogHas(Cur, cfg.alternativeDriver)
       /\ \A n \in {"native", "flash", "prompt"} \ {cfg.alternativeDriver} :
              CatalogHas(Cur, n)

\* C22: each pass of the fallback that switches to another driver (binds
\* it, makes it active, replays the interaction) has first removed a driver
\* from the catalog, and makes one switch; a pass that finds no supporting
\* driver binds, activates and replays nothing.
C22_SwitchFollowsRemoval ==
    outcome.op = "timer" /\ last.ev.name = "support" =>
        \A k \in 1..Len(last.fb) :
            /\ Len(last.fb[k].binds) > 0 => last.fb[k].removed
            /\ FirstSupporting = Undefined =>
                  /\ last.fb[k].binds = << >>
                  /\ last.fb[k].replays = << >>

\* C23: once the timer holds no dispatch, every 'support' error that armed
\* it has been dispatched to the 'error' handlers, or a later 'support'
\* error has.
C23_SupportErrorDispatched ==
    pending = << >> =>
        \A i \in 1..Len(calls) :
            calls[i].kind = "support" /\ calls[i].armed =>
                \E j \in i..Len(calls) :
                    calls[j].kind = "support" /\ calls[j].fired = 1

\* C24: where ZeroClipboard is loaded, a copy() call with both arguments
\* present throws nothing and leaves a registered driver in use, with a
\* binding made through it.
C24_CopyThroughRegisteredDriver ==
    /\ outcome.op = "copy"
    /\ outcome.threw # "Invalid arguments"
    /\ env.zc # Null
    => /\ outcome.threw = NoError
       /\ CatalogHas(Cur, using)
       /\ \E i \in 1..Len(bound) : bound[i].driver = using

====
